---- MODULE Spec2Model ----
(***************************************************************************)
(* feed_generator.py: replay of a historical CSV into an append-only live *)
(* CSV feed.                                                               *)
(*                                                                         *)
(* Abstraction.  A CSV file is the sequence of its records as csv.reader   *)
(* and csv.writer exchange them: a record is a sequence of fields, a field *)
(* is a sequence of one-character strings, a blank line is the empty       *)
(* record.  Quoting and line terminators are below this level.  Pacing     *)
(* values are the non-negative integers that digit strings denote, and a   *)
(* speed is an integer number of SpeedQuantum = 5e-10 units, so that the   *)
(* 1e-9 floor of compute_sleep_s is MinSpeed = 2 units.  A delay is kept   *)
(* as the fraction num/den that the code divides.                          *)
(***************************************************************************)
EXTENDS Integers, Sequences, FiniteSets

VARIABLES
    speed,       \* args.speed, in SpeedQuantum units
    input,       \* the file at args.input: [exists, recs]
    outDir,      \* whether the parent directory of args.output exists
    outExists,   \* whether the file at args.output exists
    outFile,     \* its content as the operating system holds it
    durable,     \* its content as of the last completed fsync
    start,       \* the output location as the run found it
    runs,        \* number of the current run against this output location
    pc,          \* position of main()
    exitCode,    \* process exit status once the run has ended, else -1
    err,         \* which diagnostic went to the error stream
    rows,        \* rows, main line 103
    fieldnames,  \* fieldnames, main line 108
    i,           \* number of rows the for loop of line 130 has taken
    prev_t,      \* prev_t, main line 128
    curr_t,      \* curr_t, main line 131
    buf,         \* f_out's userspace buffer: records written, not yet flushed
    delays,      \* sleep_s of every loop iteration so far, in order
    nHeader      \* how many times the header reached the output file

vars == << speed, input, outDir, outExists, outFile, durable, start, runs, pc,
           exitCode, err, rows, fieldnames, i, prev_t, curr_t, buf, delays,
           nHeader >>

-----------------------------------------------------------------------------
(* Bounds of the model *)

MaxRows == 3

MaxRuns == 2

MaxRerunRows == 1

-----------------------------------------------------------------------------
(* Text *)

TIME == << "t", "i", "m", "e" >>
CH1 == << "c", "h", "1" >>

Min(a, b) == IF a < b THEN a ELSE b
Max(a, b) == IF a > b THEN a ELSE b

SeqsUpTo(S, n) == UNION { [1..k -> S] : k \in 0..n }

RECURSIVE lstrip(_)
lstrip(s) == IF s # << >> /\ Head(s) = " " THEN lstrip(Tail(s)) ELSE s

RECURSIVE rstrip(_)
rstrip(s) ==
    IF s # << >> /\ s[Len(s)] = " " THEN rstrip(SubSeq(s, 1, Len(s) - 1)) ELSE s

strip(s) == rstrip(lstrip(s))

IsDigit(c) == c \in { "0", "1", "2", "3" }

DigitVal(c) == CASE c = "0" -> 0 [] c = "1" -> 1 [] c = "2" -> 2 [] c = "3" -> 3

RECURSIVE ParseDigits(_)
ParseDigits(s) ==
    IF s = << >> THEN 0
    ELSE 10 * ParseDigits(SubSeq(s, 1, Len(s) - 1)) + DigitVal(s[Len(s)])

-----------------------------------------------------------------------------
(* Optional[float] and delays *)

None == [isNone |-> TRUE, val |-> 0]
Some(n) == [isNone |-> FALSE, val |-> n]

MinSpeed == 2

Frac(n, d) == [num |-> n, den |-> d]

\* float(x) of line 74 on the model's alphabet: a non-empty digit string is its
\* value, anything else raises ValueError.
float_ok(x) == x # << >> /\ \A j \in 1..Len(x) : IsDigit(x[j])

\* lines 67-76; x is a dictionary value: a string, None, or the list under
\* restkey.
safe_float(x) ==
    IF x.kind # "str" THEN None
    ELSE LET y == strip(x.str)
         IN IF y = << >> THEN None
            ELSE IF float_ok(y) THEN Some(ParseDigits(y))
            ELSE None

compute_sleep_s_Signed(prev_time, curr_time, spd) ==
    IF prev_time.isNone \/ curr_time.isNone THEN Frac(0, 1)
    ELSE Frac(curr_time.val - prev_time.val, Max(MinSpeed, spd))

\* lines 79-83
compute_sleep_s(prev_time, curr_time, spd) ==
    IF prev_time.isNone \/ curr_time.isNone THEN Frac(0, 1)
    ELSE LET dt == Max(0, curr_time.val - prev_time.val)
         IN Frac(dt, Max(MinSpeed, spd))

-----------------------------------------------------------------------------
(* Dictionaries as csv.DictReader builds them: insertion-ordered pairs *)

NoneKey == [none |-> TRUE, name |-> << >>]
Key(n) == [none |-> FALSE, name |-> n]

NoneVal == [kind |-> "none", str |-> << >>, list |-> << >>]
StrVal(s) == [kind |-> "str", str |-> s, list |-> << >>]
ListVal(l) == [kind |-> "list", str |-> << >>, list |-> l]

Keys(d) == [j \in 1..Len(d) |-> d[j].k]

HasKey(d, k) == \E j \in 1..Len(d) : d[j].k = k

DictSet(d, k, v) ==
    IF HasKey(d, k)
    THEN [j \in 1..Len(d) |-> IF d[j].k = k THEN [k |-> k, v |-> v] ELSE d[j]]
    ELSE Append(d, [k |-> k, v |-> v])

DictGet(d, k, default) ==
    IF HasKey(d, k) THEN (CHOOSE p \in { d[j] : j \in 1..Len(d) } : p.k = k).v
    ELSE default

\* dict(zip(self.fieldnames, row)), first n pairs
RECURSIVE DictZip(_, _, _)
DictZip(names, row, n) ==
    IF n = 0 THEN << >>
    ELSE DictSet(DictZip(names, row, n - 1), Key(names[n]), StrVal(row[n]))

\* for key in self.fieldnames[lr:]: d[key] = self.restval
RECURSIVE DictFill(_, _, _, _)
DictFill(d, names, from, to) ==
    IF to < from THEN d
    ELSE DictSet(DictFill(d, names, from, to - 1), Key(names[to]), NoneVal)

DictReaderRow(names, row) ==
    LET lf == Len(names)
        lr == Len(row)
        d == DictZip(names, row, Min(lf, lr))
    IN IF lf < lr THEN DictSet(d, NoneKey, ListVal(SubSeq(row, lf + 1, lr)))
       ELSE IF lf > lr THEN DictFill(d, names, lr + 1, lf)
       ELSE d

read_all_rows_SkipsFirstRow(recs) ==
    IF recs = << >> \/ Head(recs) = << >>
    THEN [ok |-> FALSE, err |-> "no header", rows |-> << >>]
    ELSE LET data == Tail(SelectSeq(recs, LAMBDA r : r # << >>))
             rs == [j \in 1..Len(data) - 1 |->
                        DictReaderRow(Head(recs), data[j + 1])]
         IN IF rs = << >>
            THEN [ok |-> FALSE, err |-> "no data rows", rows |-> << >>]
            ELSE [ok |-> TRUE, err |-> "", rows |-> rs]

\* lines 56-64
read_all_rows(recs) ==
    IF recs = << >> \/ Head(recs) = << >>
    THEN [ok |-> FALSE, err |-> "no header", rows |-> << >>]
    ELSE LET data == SelectSeq(Tail(recs), LAMBDA r : r # << >>)
             rs == [j \in 1..Len(data) |-> DictReaderRow(Head(recs), data[j])]
         IN IF rs = << >>
            THEN [ok |-> FALSE, err |-> "no data rows", rows |-> << >>]
            ELSE [ok |-> TRUE, err |-> "", rows |-> rs]

-----------------------------------------------------------------------------
(* csv.DictWriter *)

\* str() of a list of strings, as csv.writer writes a non-string field
RECURSIVE ReprItems(_)
ReprItems(l) ==
    IF l = << >> THEN << >>
    ELSE << "'" >> \o Head(l) \o << "'" >>
         \o (IF Len(l) > 1 THEN << ",", " " >> ELSE << >>) \o ReprItems(Tail(l))

FieldText(v) ==
    CASE v.kind = "str" -> v.str
      [] v.kind = "none" -> << >>
      [] v.kind = "list" -> << "[" >> \o ReprItems(v.list) \o << "]" >>

\* DictWriter._dict_to_list with extrasaction = "raise"
WrongFields(names, rowdict) ==
    { k \in { rowdict[j].k : j \in 1..Len(rowdict) } :
        \A n \in 1..Len(names) : names[n] # k }

\* the record writer.writerow(row) hands to csv.writer, restval = ""
RowLine(names, rowdict) ==
    [n \in 1..Len(names) |-> FieldText(DictGet(rowdict, names[n], StrVal(<< >>)))]

HeaderLine_Reversed(names) ==
    [n \in 1..Len(names) |->
        IF names[Len(names) + 1 - n].none THEN << >>
        ELSE names[Len(names) + 1 - n].name]

\* writeheader(): dict(zip(fieldnames, fieldnames)) written as a row
HeaderLine(names) ==
    [n \in 1..Len(names) |-> IF names[n].none THEN << >> ELSE names[n].name]

-----------------------------------------------------------------------------
(* Inputs of a run *)

T0 == << "0" >>
T1 == << "1" >>
T3 == << "3" >>
TPad == << " ", "2", " " >>
TBlank == << " " >>
A == << "a" >>
B == << "b" >>

\* first lines of an input file; << >> is a blank first line
Headers ==
    { << >>, << TIME, CH1 >>, << CH1, TIME >>, << TIME >>, << CH1 >>,
      << TIME, TIME >> }

\* later lines; << >> is a blank line
Records ==
    { << >>, << T0, A >>, << TPad, B >>, << TBlank, A >>, << << >> >>,
      << T3, B, A >> }

FilesOver(hs, rs, n) ==
    { << >> } \cup { << h >> \o body : h \in hs, body \in SeqsUpTo(rs, n) }

Missing == [exists |-> FALSE, recs |-> << >>]

InputsOver(hs, rs, n) ==
    { Missing } \cup { [exists |-> TRUE, recs |-> f] : f \in FilesOver(hs, rs, n) }

Inputs == InputsOver(Headers, Records, MaxRows)

\* -1e-9, 0, 5e-10, 1e-9 and 2e-9 in SpeedQuantum units
Speeds == { -2, 0, 1, 2, 4 }

\* what an earlier run left at args.output
OldFeed ==
    << << TIME, CH1 >>, << T3, B >>, << T0, A >>, << T3, B >>, << T1, A >>,
       << T3, A >> >>

Outputs ==
    { [dir |-> FALSE, exists |-> FALSE, file |-> << >>],
      [dir |-> TRUE, exists |-> TRUE, file |-> OldFeed] }

RerunInputs ==
    InputsOver({ << TIME, CH1 >>, << CH1 >> },
               { << T0, A >>, << TPad, B >>, << T3, B, A >> }, MaxRerunRows)

RerunSpeeds == { 0, 1, 4 }

-----------------------------------------------------------------------------
(* main() *)

Locals(in, spd) ==
    /\ input = in
    /\ speed = spd
    /\ pc = "main"
    /\ exitCode = -1
    /\ err = ""
    /\ rows = << >>
    /\ fieldnames = << >>
    /\ i = 0
    /\ prev_t = None
    /\ curr_t = None
    /\ buf = << >>
    /\ delays = << >>
    /\ nHeader = 0

Init ==
    /\ \E in \in Inputs, spd \in Speeds : Locals(in, spd)
    /\ \E o \in Outputs :
          /\ outDir = o.dir
          /\ outExists = o.exists
          /\ outFile = o.file
          /\ durable = o.file
          /\ start = o
    /\ runs = 1

Fail(code, msg) ==
    /\ pc' = "failed"
    /\ exitCode' = code
    /\ err' = msg

SpeedRejected_OnlyNegative(spd) == spd < 0

\* lines 89-91
SpeedRejected(spd) == spd <= 0

CheckSpeed ==
    /\ pc = "main"
    /\ IF SpeedRejected(speed)
       THEN Fail(2, "--speed must be > 0")
       ELSE pc' = "check_input" /\ UNCHANGED << exitCode, err >>
    /\ UNCHANGED << speed, input, outDir, outExists, outFile, durable, start,
                    runs, rows, fieldnames, i, prev_t, curr_t, buf, delays,
                    nHeader >>

\* line 100
ensure_parent_dir == outDir' = TRUE

\* lines 93-100
CheckInput ==
    /\ pc = "check_input"
    /\ IF ~input.exists
       THEN Fail(2, "input file not found") /\ UNCHANGED outDir
       ELSE ensure_parent_dir /\ pc' = "load" /\ UNCHANGED << exitCode, err >>
    /\ UNCHANGED << speed, input, outExists, outFile, durable, start, runs,
                    rows, fieldnames, i, prev_t, curr_t, buf, delays, nHeader >>

HasTimeColumn_AnyColumn(names) == names # << >>

\* "time" in fieldnames, line 109
HasTimeColumn(names) == \E n \in 1..Len(names) : names[n] = Key(TIME)

\* lines 102-111
Load ==
    /\ pc = "load"
    /\ LET r == read_all_rows(input.recs)
       IN IF ~r.ok
          THEN Fail(2, r.err) /\ UNCHANGED << rows, fieldnames >>
          ELSE /\ rows' = r.rows
               /\ fieldnames' = Keys(r.rows[1])
               /\ IF ~HasTimeColumn(fieldnames')
                  THEN Fail(2, "expected a 'time' column")
                  ELSE pc' = "open" /\ UNCHANGED << exitCode, err >>
    /\ UNCHANGED << speed, input, outDir, outExists, outFile, durable, start,
                    runs, i, prev_t, curr_t, buf, delays, nHeader >>

Opened_ForAppend(content) == content

\* open(output_path, "w") of line 114: the content the file has once opened
Opened(content) == << >>

\* line 114.  The truncation is not synced: after a power loss the file holds
\* its old content or none.
OpenOutput ==
    /\ pc = "open"
    /\ outExists' = TRUE
    /\ outFile' = Opened(outFile)
    /\ durable' \in { durable, outFile' }
    /\ buf' = << >>
    /\ pc' = "write_header"
    /\ UNCHANGED << speed, input, outDir, start, runs, exitCode, err, rows,
                    fieldnames, i, prev_t, curr_t, delays, nHeader >>

\* lines 115-116
WriteHeader ==
    /\ pc = "write_header"
    /\ buf' = Append(buf, HeaderLine(fieldnames))
    /\ pc' = "sync_header"
    /\ UNCHANGED << speed, input, outDir, outExists, outFile, durable, start,
                    runs, exitCode, err, rows, fieldnames, i, prev_t, curr_t,
                    delays, nHeader >>

\* f_out.flush(): the file once the buffer has been written to it
Flushed(content, buffered) == content \o buffered

Sync_WithoutFsync ==
    /\ outFile' = Flushed(outFile, buf)
    /\ durable' = durable
    /\ buf' = << >>

\* f_out.flush(); os.fsync(f_out.fileno())
Sync ==
    /\ outFile' = Flushed(outFile, buf)
    /\ durable' = outFile'
    /\ buf' = << >>

\* lines 117-128
SyncHeader ==
    /\ pc = "sync_header"
    /\ Sync
    /\ nHeader' = nHeader + 1
    /\ prev_t' = None
    /\ pc' = "loop"
    /\ UNCHANGED << speed, input, outDir, outExists, start, runs, exitCode,
                    err, rows, fieldnames, i, curr_t, delays >>

\* lines 130-135: the loop takes the next row, computes its delay and sleeps
Pace ==
    /\ pc = "loop"
    /\ i < Len(rows)
    /\ i' = i + 1
    /\ curr_t' = safe_float(DictGet(rows[i'], Key(TIME), NoneVal))
    /\ delays' = Append(delays, compute_sleep_s(prev_t, curr_t', speed))
    /\ pc' = "write_row"
    /\ UNCHANGED << speed, input, outDir, outExists, outFile, durable, start,
                    runs, exitCode, err, rows, fieldnames, prev_t, buf,
                    nHeader >>

\* line 137
WriteRow ==
    /\ pc = "write_row"
    /\ IF WrongFields(fieldnames, rows[i]) # { }
       THEN Fail(1, "ValueError") /\ UNCHANGED buf
       ELSE /\ buf' = Append(buf, RowLine(fieldnames, rows[i]))
            /\ pc' = "sync_row"
            /\ UNCHANGED << exitCode, err >>
    /\ UNCHANGED << speed, input, outDir, outExists, outFile, durable, start,
                    runs, rows, fieldnames, i, prev_t, curr_t, delays,
                    nHeader >>

SyncRow_KeepsLastNumber ==
    /\ pc = "sync_row"
    /\ Sync
    /\ prev_t' = IF curr_t.isNone THEN prev_t ELSE curr_t
    /\ pc' = "loop"
    /\ UNCHANGED << speed, input, outDir, outExists, start, runs, exitCode,
                    err, rows, fieldnames, i, curr_t, delays, nHeader >>

\* lines 138-141
SyncRow ==
    /\ pc = "sync_row"
    /\ Sync
    /\ prev_t' = curr_t
    /\ pc' = "loop"
    /\ UNCHANGED << speed, input, outDir, outExists, start, runs, exitCode,
                    err, rows, fieldnames, i, curr_t, delays, nHeader >>

Finish_OneRowEarly ==
    /\ pc = "loop"
    /\ i >= Len(rows) - 1
    /\ pc' = "done"
    /\ exitCode' = 0
    /\ UNCHANGED << speed, input, outDir, outExists, outFile, durable, start,
                    runs, err, rows, fieldnames, i, prev_t, curr_t, buf,
                    delays, nHeader >>

\* lines 143-145
Finish ==
    /\ pc = "loop"
    /\ i = Len(rows)
    /\ pc' = "done"
    /\ exitCode' = 0
    /\ UNCHANGED << speed, input, outDir, outExists, outFile, durable, start,
                    runs, err, rows, fieldnames, i, prev_t, curr_t, buf,
                    delays, nHeader >>

FileOpen == pc \in { "write_header", "sync_header", "loop", "write_row", "sync_row" }

\* flush() or fsync() of lines 117-118 and 138-139 raises OSError.  Leaving
\* the with block closes the file, which tries the flush once more.
IOFail ==
    /\ pc \in { "sync_header", "sync_row" }
    /\ outFile' \in { outFile, Flushed(outFile, buf) }
    /\ buf' = << >>
    /\ Fail(1, "OSError")
    /\ UNCHANGED << speed, input, outDir, outExists, durable, start, runs,
                    rows, fieldnames, i, prev_t, curr_t, delays, nHeader >>

\* the process is interrupted while the output is open: the buffer is lost
\* (kill) or flushed by the closing file (KeyboardInterrupt)
Interrupt ==
    /\ FileOpen
    /\ outFile' \in { outFile, Flushed(outFile, buf) }
    /\ buf' = << >>
    /\ pc' = "killed"
    /\ exitCode' = 130
    /\ UNCHANGED << speed, input, outDir, outExists, durable, start, runs,
                    err, rows, fieldnames, i, prev_t, curr_t, delays,
                    nHeader >>

Next ==
    \/ CheckSpeed
    \/ CheckInput
    \/ Load
    \/ OpenOutput
    \/ WriteHeader
    \/ SyncHeader
    \/ Pace
    \/ WriteRow
    \/ SyncRow
    \/ Finish
    \/ IOFail
    \/ Interrupt

Spec == Init /\ [][Next]_vars

\* main() is sequential: a step that can be taken is taken
Run ==
    \/ CheckSpeed
    \/ CheckInput
    \/ Load
    \/ OpenOutput
    \/ WriteHeader
    \/ SyncHeader
    \/ Pace
    \/ WriteRow
    \/ SyncRow
    \/ Finish

FairInputs == InputsOver({ << TIME, CH1 >>, << TIME >> }, Records, MaxRows)

FairInit ==
    /\ \E in \in FairInputs, spd \in { 1, 4 } : Locals(in, spd)
    /\ outDir = FALSE
    /\ outExists = FALSE
    /\ outFile = << >>
    /\ durable = << >>
    /\ start = [dir |-> FALSE, exists |-> FALSE, file |-> << >>]
    /\ runs = 1

FairSpec == FairInit /\ [][Next]_vars /\ WF_vars(Run)

-----------------------------------------------------------------------------
(* A later run of the tool against the same output location *)

Terminated == pc \in { "done", "failed", "killed" }

Restart ==
    /\ Terminated
    /\ runs < MaxRuns
    /\ runs' = runs + 1
    /\ \E in \in RerunInputs, spd \in RerunSpeeds :
          /\ input' = in
          /\ speed' = spd
    /\ pc' = "main"
    /\ exitCode' = -1
    /\ err' = ""
    /\ rows' = << >>
    /\ fieldnames' = << >>
    /\ i' = 0
    /\ prev_t' = None
    /\ curr_t' = None
    /\ buf' = << >>
    /\ delays' = << >>
    /\ nHeader' = 0
    /\ start' = [dir |-> outDir, exists |-> outExists, file |-> outFile]
    /\ UNCHANGED << outDir, outExists, outFile, durable >>

RerunInit ==
    /\ \E in \in RerunInputs, spd \in RerunSpeeds : Locals(in, spd)
    /\ outDir = FALSE
    /\ outExists = FALSE
    /\ outFile = << >>
    /\ durable = << >>
    /\ start = [dir |-> FALSE, exists |-> FALSE, file |-> << >>]
    /\ runs = 1

RerunNext == Next \/ Restart

RerunSpec == RerunInit /\ [][RerunNext]_vars

-----------------------------------------------------------------------------
(* The input as the specification describes it, read off the file itself *)

DataRecords(recs) == SelectSeq(Tail(recs), LAMBDA r : r # << >>)

\* Section 3: a header of unique names, at least one row, every row with
\* exactly one string value per header name; the pacing column is present.
ValidDataset(recs) ==
    /\ recs # << >>
    /\ Head(recs) # << >>
    /\ \A m, n \in 1..Len(Head(recs)) : Head(recs)[m] = Head(recs)[n] => m = n
    /\ \E n \in 1..Len(Head(recs)) : Head(recs)[n] = TIME
    /\ DataRecords(recs) # << >>
    /\ \A j \in 1..Len(DataRecords(recs)) :
          Len(DataRecords(recs)[j]) = Len(Head(recs))

Valid == input.exists /\ ValidDataset(input.recs)

\* the input is missing, has no header, has no data row, or has no time column
InputDefect ==
    \/ ~input.exists
    \/ input.recs = << >>
    \/ Head(input.recs) = << >>
    \/ DataRecords(input.recs) = << >>
    \/ \A n \in 1..Len(Head(input.recs)) : Head(input.recs)[n] # TIME

OutputUntouched ==
    /\ outDir = start.dir
    /\ outExists = start.exists
    /\ outFile = start.file
    /\ durable = start.file

\* texts of the model's alphabet that denote a number
NumericTexts == { T0, T1, T3, TPad }

\* the pacing value of loaded row j is absent: no string, or not a number
Absent(j) ==
    LET v == DictGet(rows[j], Key(TIME), NoneVal)
    IN v.kind # "str" \/ v.str \notin NumericTexts

\* the number a numeric pacing text denotes
Numeric(j) ==
    LET t == DictGet(rows[j], Key(TIME), NoneVal).str
    IN CASE t = T0 -> 0 [] t = T1 -> 1 [] t = TPad -> 2 [] t = T3 -> 3

\* what the writer makes of the rows loaded
Written(k) ==
    << HeaderLine(fieldnames) >>
        \o [j \in 1..k |-> RowLine(fieldnames, rows[j])]

Replaying == pc \in { "loop", "write_row", "sync_row" }

-----------------------------------------------------------------------------
(* Claims *)

\* C1: a run with speed <= 0 ends at once with exit code 2, before the input
\* is looked at or a row is loaded, and leaves the output location as it found
\* it: no directory or file created, no file truncated, nothing written.
C1_SpeedRejected ==
    (speed <= 0 /\ pc # "main") =>
        /\ pc = "failed"
        /\ exitCode = 2
        /\ rows = << >>
        /\ i = 0
        /\ OutputUntouched

C1_Witness ==
    /\ speed = 0
    /\ pc = "failed"
    /\ exitCode = 2
    /\ start.exists
    /\ outFile = OldFeed

\* C2: a run with speed > 0 whose input is missing, has no header, has no data
\* row or has no time column ends with exit code 2 before the output is
\* opened: the output file is as the run found it, absent or with its content.
C2_BadInputNoOutput ==
    (speed > 0 /\ InputDefect /\ pc \notin { "main", "check_input", "load" }) =>
        /\ pc = "failed"
        /\ exitCode = 2
        /\ outExists = start.exists
        /\ outFile = start.file
        /\ durable = start.file
        /\ buf = << >>

C2_Witness ==
    /\ speed > 0
    /\ input.exists
    /\ input.recs # << >>
    /\ Head(input.recs) = << CH1 >>
    /\ Len(DataRecords(input.recs)) = 2
    /\ pc = "failed"
    /\ exitCode = 2
    /\ outFile = OldFeed

\* C3: for a valid dataset, the opened output is empty until the header is
\* written; once the header step is over the first record of the output, in
\* the file and on stable storage, is the input header, names and order; and
\* no delay has been computed and no row taken before that.
C3_HeaderFirst ==
    Valid =>
        /\ pc \in { "write_header", "sync_header" } =>
              outFile = << >> /\ delays = << >> /\ i = 0
        /\ (Replaying \/ pc = "done") =>
              /\ outFile # << >> /\ Head(outFile) = Head(input.recs)
              /\ durable # << >> /\ Head(durable) = Head(input.recs)
        /\ (pc = "loop" /\ i = 0) =>
              outFile = << Head(input.recs) >> /\ delays = << >>
        /\ (delays # << >> \/ i > 0) =>
              /\ nHeader = 1
              /\ durable # << >> /\ Head(durable) = Head(input.recs)

C3_Witness ==
    /\ Valid
    /\ start.exists
    /\ pc = "loop"
    /\ i = 0
    /\ delays = << >>
    /\ outFile = << << CH1, TIME >> >>
    /\ durable = outFile

\* C4: after a completed replay of a valid dataset the output holds, after
\* its header, exactly the input's data records, each with its values in
\* header order, in input order.
C4_RowsPreserved ==
    (Valid /\ pc = "done") =>
        /\ exitCode = 0
        /\ Tail(outFile) = DataRecords(input.recs)
        /\ Len(outFile) = 1 + Len(rows)

C4_Witness ==
    /\ pc = "done"
    /\ input.recs = << << TIME, CH1 >>, << TPad, B >>, << TBlank, A >>,
                       << T0, A >> >>
    /\ Len(outFile) = 4

\* C5: from the header on, what is on stable storage is the header followed by
\* the first k rows as written, k being the number of rows whose sync is over;
\* the file itself is that or that plus the one row in flight; this also holds
\* after an I/O failure or an interruption.  For a valid dataset these are
\* the first k + 1 records of the input.
C5_DurablePrefix ==
    nHeader = 1 =>
        /\ \E k \in 0..Len(rows) :
              /\ durable = Written(k)
              /\ outFile = durable \/ (k < Len(rows) /\ outFile = Written(k + 1))
              /\ pc \in { "loop", "done" } => k = i /\ outFile = durable
              /\ pc \in { "write_row", "sync_row" } => k = i - 1 /\ outFile = durable
              /\ k \in { i - 1, i }
              /\ Valid =>
                    durable = << Head(input.recs) >>
                                  \o SubSeq(DataRecords(input.recs), 1, k)
        /\ pc = "sync_row" => buf = << RowLine(fieldnames, rows[i]) >>
        /\ pc # "sync_row" => buf = << >>

C5_Witness ==
    /\ pc = "failed"
    /\ err = "OSError"
    /\ i = 3
    /\ Len(durable) = 3
    /\ Len(outFile) = 4

\* C6: a completed run leaves in the output its own header and rows and
\* nothing else, whatever an earlier run had left there.
C6_RerunTruncates ==
    pc = "done" =>
        /\ outFile = Written(Len(rows))
        /\ Valid => outFile = << Head(input.recs) >> \o DataRecords(input.recs)

C6_Witness ==
    /\ runs = 2
    /\ pc = "done"
    /\ start.exists
    /\ Len(start.file) = 2
    /\ Len(outFile) = 2
    /\ outFile # start.file

\* the two pacing values of iteration j and of the one before it are numbers
BothNumeric(j) == j > 1 /\ ~Absent(j) /\ ~Absent(j - 1)

C8_AbsentPacing ==
    /\ \A j \in 1..Len(delays) :
          (j = 1 \/ Absent(j) \/ Absent(j - 1)) => delays[j].num = 0
    /\ (pc = "loop" /\ i >= 1 /\ Absent(i)) => prev_t = None
    /\ (pc = "loop" /\ i >= 1 /\ ~Absent(i)) => prev_t = Some(Numeric(i))
    /\ (pc \in { "write_row", "sync_row" } /\ Absent(i)) => curr_t = None
    /\ (pc = "failed" /\ i >= 1 /\ err # "OSError") =>
          WrongFields(fieldnames, rows[i]) # { }

C8_Witness ==
    /\ pc = "done"
    /\ Len(rows) = 3
    /\ ~Absent(1) /\ Numeric(1) = 0
    /\ Absent(2)
    /\ ~Absent(3) /\ Numeric(3) = 2
    /\ delays[3].num = 0

\* C9, as claimed: every row the loader returns has exactly the header's
\* names as its keys.
C9_RowKeysAreHeader ==
    \A j \in 1..Len(rows) :
        { rows[j][n].k : n \in 1..Len(rows[j]) }
            = { Key(Head(input.recs)[n]) : n \in 1..Len(Head(input.recs)) }

====
